---- MODULE Spec2Model ----
(***************************************************************************)
(* Controller muxer (src/src/main.rs): two Connection Supervisor threads   *)
(* discover a named evdev device among /dev/input/event0..31, grab it and  *)
(* forward its events, one by one, into one uinput VirtualDevice that is   *)
(* shared behind a parking_lot Mutex.                                      *)
(*                                                                         *)
(* The host's input subsystem is the environment: device nodes appear and  *)
(* disappear, change permissions, and the kernel keeps one grab owner per  *)
(* device.  The uinput device the program creates is itself one of the     *)
(* host's device nodes.                                                    *)
(***************************************************************************)
EXTENDS Integers, Sequences, FiniteSets, Bags, TLC

\* ------------------------------------------------------------------ bounds
\* Low node indices a device may be plugged at (besides index ScanRange).
LowNodes == 2
\* Largest batch one fetch_events call returns.
MaxBatch == 2
\* Number of events the devices deliver in one behaviour of Spec.
MaxEvents == 2
\* Number of events the devices deliver in one behaviour of SpecLive.
LiveEvents == 1

\* --------------------------------------------------------- program constants
\* for i in 0..32
ScanRange == 32

\* Device names are sequences of characters; the model abbreviates
\* "Xbox Wireless Controller" to "Xc", a second controller to "Tc" and the
\* virtual device's "Muxed Controller" to "Mc".
PRIMARY_CONTROLLER_NAME == <<"X", "c">>
SECONDARY_CONTROLLER_NAME == <<"T", "c">>
VIRTUAL_DEVICE_NAME == <<"M", "c">>

\* ------------------------------------------------------------------ universe
Threads == {1, 2}
Other(t) == 3 - t

PhysDevices == {"A", "B"}
VirtDev == "V"
Devices == PhysDevices \cup {VirtDev}
NoDev == "none"

AdvertisedName(d) ==
    CASE d = "A" -> PRIMARY_CONTROLLER_NAME
      [] d = "B" -> SECONDARY_CONTROLLER_NAME
      [] d = "V" -> VIRTUAL_DEVICE_NAME

Absent == 0 - 1
PlugNodes == (0 .. (LowNodes - 1)) \cup {ScanRange}

\* The argument vectors considered: the defaults, a name shared by both
\* sources, two names matching the same device, and a wrongly cased name.
NameConfigs ==
    { <<PRIMARY_CONTROLLER_NAME, SECONDARY_CONTROLLER_NAME>>,
      << <<"c">>, <<"c">> >>,
      << <<"X">>, <<"X", "c">> >>,
      << <<"x", "c">>, SECONDARY_CONTROLLER_NAME >> }

VARIABLES
    mainPc,     \* where the main thread is
    names,      \* <<primary_name, secondary_name>>
    node,       \* node[d]: index of d's /dev/input/event node, or Absent
    openable,   \* devices whose node Device::open can open
    grabber,    \* kernel: the thread holding the EVIOCGRAB of d, or 0
    pc,         \* pc[t]: where supervisor thread t is
    hdl,        \* hdl[t]: the Device thread t holds open, or NoDev
    gone,       \* threads whose open handle lost its device (unplugged)
    vpos,       \* vpos[t]: events of the virtual device t's handle has consumed
    batch,      \* batch[t]: events fetched and not yet emitted
    lockHolder, \* the thread holding the Mutex guard, or 0
    budget,     \* number of events the devices will still deliver
    readLog,    \* history: readLog[t], the events thread t read, in order
    outLog,     \* the events the virtual device received, in order
    emitFailed, \* history: some emit returned an error
    path        \* history: path[t], the node index at which the device of
                \* t's last granted session had been resolved

vars == <<mainPc, names, node, openable, grabber, pc, hdl, gone, vpos, batch,
          lockHolder, budget, readLog, outLog, emitFailed, path>>

\* ------------------------------------------------------------- pure helpers
\* str::contains: needle occurs in hay as a contiguous, case-sensitive run.
Contains(hay, needle) ==
    \E i \in 0 .. (Len(hay) - Len(needle)) :
        SubSeq(hay, i + 1, i + Len(needle)) = needle

\* The device whose node has index i, or NoDev.
DeviceAt(nd, i) ==
    IF \E d \in Devices : nd[d] = i
    THEN CHOOSE d \in Devices : nd[d] = i
    ELSE NoDev

\* A loop over 0..=32.
RECURSIVE ScanInclusive(_, _, _, _)
ScanInclusive(i, name, nd, op) ==
    IF i > ScanRange THEN NoDev
    ELSE LET d == DeviceAt(nd, i) IN
         IF d # NoDev /\ d \in op /\ Contains(AdvertisedName(d), name)
         THEN d
         ELSE ScanInclusive(i + 1, name, nd, op)

\* The body of the for loop from index i on: the first index whose node
\* opens and whose name contains `name`, or NoDev when the range is used up.
RECURSIVE ScanFrom(_, _, _, _)
ScanFrom(i, name, nd, op) ==
    IF i >= ScanRange THEN NoDev
    ELSE LET d == DeviceAt(nd, i) IN
         IF d # NoDev /\ d \in op /\ Contains(AdvertisedName(d), name)
         THEN d
         ELSE ScanFrom(i + 1, name, nd, op)

\* A loop over 1..32.
find_device_from_one(name, nd, op) == ScanFrom(1, name, nd, op)

find_device_by_name(name, nd, op) == ScanFrom(0, name, nd, op)

\* A handle that is never closed (leaked), so its grab stays.
ReleaseGrabNever(g, t) == g

\* A close that drops the grabs of every handle of the process.
ReleaseGrabAll(g, t) == [d \in Devices |-> 0]

\* Closing thread t's handle: the kernel drops the grab the handle held.
ReleaseGrab(g, t) == [d \in Devices |-> IF g[d] = t THEN 0 ELSE g[d]]

Min(a, b) == IF a < b THEN a ELSE b

\* ---------------------------------------------------------------- initially
\* The process has just started: nothing is built, no thread runs.  The
\* physical devices sit at any distinct nodes, or are unplugged, and the
\* user may open every node (SpecScan below starts from catalogs with nodes
\* that do not open).
InitWith(events) ==
    /\ mainPc = "setup"
    /\ names \in NameConfigs
    /\ node \in { f \in [Devices -> PlugNodes \cup {Absent}] :
                    /\ f[VirtDev] = Absent
                    /\ f["A"] = Absent \/ f["A"] # f["B"] }
    /\ openable = Devices
    /\ grabber = [d \in Devices |-> 0]
    /\ pc = [t \in Threads |-> "unstarted"]
    /\ hdl = [t \in Threads |-> NoDev]
    /\ gone = {}
    /\ vpos = [t \in Threads |-> 0]
    /\ batch = [t \in Threads |-> <<>>]
    /\ lockHolder = 0
    /\ budget = events
    /\ readLog = [t \in Threads |-> <<>>]
    /\ outLog = <<>>
    /\ emitFailed = FALSE
    /\ path = [t \in Threads |-> Absent]

Init == InitWith(MaxEvents)

\* ------------------------------------------------------------------- main()
\* setup_virtual_device()? succeeds: the uinput device exists and the host
\* gives it a free event node.
SetupOk ==
    /\ mainPc = "setup"
    /\ \E i \in PlugNodes :
         /\ \A d \in Devices : node[d] # i
         /\ node' = [node EXCEPT ![VirtDev] = i]
    /\ mainPc' = "spawn_primary"
    /\ UNCHANGED <<names, path, openable, grabber, pc, hdl, gone, vpos, batch,
                   lockHolder, budget, readLog, outLog, emitFailed>>

\* A main that drops the construction error and goes on.
SetupFailIgnored ==
    /\ mainPc = "setup"
    /\ mainPc' = "spawn_primary"
    /\ UNCHANGED <<names, path, node, openable, grabber, pc, hdl, gone, vpos, batch,
                   lockHolder, budget, readLog, outLog, emitFailed>>

\* setup_virtual_device()? fails: main returns the error.
SetupFail ==
    /\ mainPc = "setup"
    /\ mainPc' = "exit_err"
    /\ UNCHANGED <<names, path, node, openable, grabber, pc, hdl, gone, vpos, batch,
                   lockHolder, budget, readLog, outLog, emitFailed>>

\* connection_loop(primary_name, ..): thread::spawn.
SpawnPrimary ==
    /\ mainPc = "spawn_primary"
    /\ pc' = [pc EXCEPT ![1] = "find"]
    /\ mainPc' = "spawn_secondary"
    /\ UNCHANGED <<names, path, node, openable, grabber, hdl, gone, vpos, batch,
                   lockHolder, budget, readLog, outLog, emitFailed>>

\* connection_loop(secondary_name, ..): thread::spawn; main then joins.
SpawnSecondary ==
    /\ mainPc = "spawn_secondary"
    /\ pc' = [pc EXCEPT ![2] = "find"]
    /\ mainPc' = "join"
    /\ UNCHANGED <<names, path, node, openable, grabber, hdl, gone, vpos, batch,
                   lockHolder, budget, readLog, outLog, emitFailed>>

\* -------------------------------------------------------- connection_loop
\* A supervisor that remembers the path of its last session and opens that
\* node again when it is there, scanning only when it is not.
FindCachedPath(t) ==
    /\ pc[t] = "find"
    /\ LET c == IF path[t] # Absent THEN DeviceAt(node, path[t]) ELSE NoDev
           d == IF c # NoDev /\ c \in openable
                THEN c
                ELSE find_device_by_name(names[t], node, openable) IN
         IF d # NoDev
         THEN /\ hdl' = [hdl EXCEPT ![t] = d]
              /\ vpos' = [vpos EXCEPT ![t] = IF d = VirtDev THEN Len(outLog) ELSE 0]
              /\ pc' = [pc EXCEPT ![t] = "grab"]
         ELSE /\ pc' = [pc EXCEPT ![t] = "sleep3"]
              /\ UNCHANGED <<hdl, vpos>>
    /\ UNCHANGED <<mainPc, names, path, node, openable, grabber, gone, batch,
                   lockHolder, budget, readLog, outLog, emitFailed>>

\* match find_device_by_name(&controller_name): Ok(dev) enters
\* handle_controller with the open device, Err goes to the 3 s sleep.
Find(t) ==
    /\ pc[t] = "find"
    /\ LET d == find_device_by_name(names[t], node, openable) IN
         IF d # NoDev
         THEN /\ hdl' = [hdl EXCEPT ![t] = d]
              /\ vpos' = [vpos EXCEPT ![t] = IF d = VirtDev THEN Len(outLog) ELSE 0]
              /\ pc' = [pc EXCEPT ![t] = "grab"]
         ELSE /\ pc' = [pc EXCEPT ![t] = "sleep3"]
              /\ UNCHANGED <<hdl, vpos>>
    /\ UNCHANGED <<mainPc, names, path, node, openable, grabber, gone, batch,
                   lockHolder, budget, readLog, outLog, emitFailed>>

\* A supervisor that gives up after the delay instead of looping.
Sleep3ThenExit(t) ==
    /\ pc[t] = "sleep3"
    /\ pc' = [pc EXCEPT ![t] = "exited"]
    /\ UNCHANGED <<mainPc, names, path, node, openable, grabber, hdl, gone, vpos,
                   batch, lockHolder, budget, readLog, outLog, emitFailed>>

\* thread::sleep(Duration::from_secs(3)), then the loop starts over.
Sleep3(t) ==
    /\ pc[t] = "sleep3"
    /\ pc' = [pc EXCEPT ![t] = "find"]
    /\ UNCHANGED <<mainPc, names, path, node, openable, grabber, hdl, gone, vpos,
                   batch, lockHolder, budget, readLog, outLog, emitFailed>>

\* ------------------------------------------------------ handle_controller
\* A guard that is leaked (mem::forget) instead of dropped.
GuardLeaked(t) == lockHolder

\* The Mutex after the guard (if t holds one) went out of scope.
GuardDropped(t) == IF lockHolder = t THEN 0 ELSE lockHolder

\* A supervisor whose thread returns when its handler fails.
SessionEndThenExit(t) ==
    /\ grabber' = ReleaseGrab(grabber, t)
    /\ hdl' = [hdl EXCEPT ![t] = NoDev]
    /\ gone' = gone \ {t}
    /\ vpos' = [vpos EXCEPT ![t] = 0]
    /\ batch' = [batch EXCEPT ![t] = <<>>]
    /\ lockHolder' = GuardDropped(t)
    /\ pc' = [pc EXCEPT ![t] = "exited"]

\* A supervisor that keeps the Device of the ended session open during the
\* delay.
SessionEndKeepingDevice(t) ==
    /\ batch' = [batch EXCEPT ![t] = <<>>]
    /\ lockHolder' = GuardDropped(t)
    /\ pc' = [pc EXCEPT ![t] = "sleep3"]
    /\ UNCHANGED <<grabber, hdl, gone, vpos>>

\* handle_controller returns Err(..): its locals are dropped (the Mutex
\* guard if held, then the source Device) and the supervisor sleeps 3 s.
SessionEnd(t) ==
    /\ grabber' = ReleaseGrab(grabber, t)
    /\ hdl' = [hdl EXCEPT ![t] = NoDev]
    /\ gone' = gone \ {t}
    /\ vpos' = [vpos EXCEPT ![t] = 0]
    /\ batch' = [batch EXCEPT ![t] = <<>>]
    /\ lockHolder' = GuardDropped(t)
    /\ pc' = [pc EXCEPT ![t] = "sleep3"]

\* A grab that does not fail on a device someone else has grabbed.
GrabIgnoringOwner(t) == t \notin gone

\* Whether EVIOCGRAB on t's handle succeeds: the device is still there and
\* no other handle holds its grab.
GrabSucceeds(t) == t \notin gone /\ grabber[hdl[t]] = 0

\* A handler that, when the grab fails, goes on to the next matching node
\* instead of returning the error.
GrabTryingNextNode(t) ==
    /\ pc[t] = "grab"
    /\ IF t \notin gone /\ grabber[hdl[t]] = 0
       THEN /\ grabber' = [grabber EXCEPT ![hdl[t]] = t]
            /\ path' = [path EXCEPT ![t] = node[hdl[t]]]
            /\ pc' = [pc EXCEPT ![t] = "fetch"]
            /\ UNCHANGED <<hdl, gone, vpos, batch, lockHolder>>
       ELSE LET d == ScanFrom(node[hdl[t]] + 1, names[t], node, openable) IN
            IF d # NoDev
            THEN /\ hdl' = [hdl EXCEPT ![t] = d]
                 /\ gone' = gone \ {t}
                 /\ UNCHANGED <<grabber, pc, vpos, batch, lockHolder, path>>
            ELSE SessionEnd(t) /\ UNCHANGED path
    /\ UNCHANGED <<mainPc, names, node, openable, budget, readLog, outLog, emitFailed>>

\* source_device.grab()?
Grab(t) ==
    /\ pc[t] = "grab"
    /\ IF GrabSucceeds(t)
       THEN /\ grabber' = [grabber EXCEPT ![hdl[t]] = t]
            /\ path' = [path EXCEPT ![t] = node[hdl[t]]]
            /\ pc' = [pc EXCEPT ![t] = "fetch"]
            /\ UNCHANGED <<hdl, gone, vpos, batch, lockHolder>>
       ELSE SessionEnd(t) /\ UNCHANGED path
    /\ UNCHANGED <<mainPc, names, node, openable, budget, readLog, outLog, emitFailed>>

\* The i-th event of a batch of k read from t's device: a fresh event of a
\* physical device, or the next event written to the virtual device.
\* (A physical device's events are numbered in the order they are read.)
FetchedEvent(t, i) ==
    IF hdl[t] = VirtDev
    THEN outLog[vpos[t] + i].ev
    ELSE <<hdl[t], Len(readLog[1]) + Len(readLog[2]) + i>>

\* How many events t's device can deliver now.
Available(t) ==
    IF hdl[t] = VirtDev THEN Len(outLog) - vpos[t] ELSE MaxBatch

\* A loop that takes the batch from its end.
CurrentEventLast(b) == b[Len(b)]

\* The event the for loop's current iteration handles.
CurrentEvent(b) == Head(b)

\* A loop whose iterator advances twice per iteration.
RestOfBatchSkipping(b) == IF Len(b) > 1 THEN Tail(Tail(b)) ELSE Tail(b)

\* What the for loop leaves of the batch after one iteration.
RestOfBatch(b) == Tail(b)

\* source_device.fetch_events()? returns a batch of k events.
FetchEvents(t) ==
    /\ pc[t] = "fetch"
    /\ t \notin gone
    /\ \E k \in 0 .. Min(MaxBatch, Min(Available(t), budget)) :
         LET b == [i \in 1 .. k |-> FetchedEvent(t, i)] IN
         /\ batch' = [batch EXCEPT ![t] = b]
         /\ readLog' = [readLog EXCEPT ![t] = @ \o b]
         /\ budget' = budget - k
         /\ vpos' = [vpos EXCEPT ![t] = IF hdl[t] = VirtDev THEN @ + k ELSE @]
         /\ pc' = [pc EXCEPT ![t] = IF k = 0 THEN "sleep10" ELSE "lock"]
    /\ UNCHANGED <<mainPc, names, path, node, openable, grabber, hdl, gone,
                   lockHolder, outLog, emitFailed>>

\* A read loop that swallows the read error and keeps the dead handle.
FetchErrorSwallowed(t) ==
    /\ pc[t] = "fetch"
    /\ t \in gone
    /\ pc' = [pc EXCEPT ![t] = "sleep10"]
    /\ UNCHANGED <<mainPc, names, path, node, openable, grabber, hdl, gone, vpos,
                   batch, lockHolder, budget, readLog, outLog, emitFailed>>

\* source_device.fetch_events()? returns an error: the device is gone.
FetchError(t) ==
    /\ pc[t] = "fetch"
    /\ t \in gone
    /\ SessionEnd(t)
    /\ UNCHANGED <<mainPc, names, path, node, openable, budget, readLog, outLog, emitFailed>>

\* A lock() that returns although another guard is alive.
LockFreeIgnoringHolder(t) == TRUE

\* Whether virt_device.lock() returns now.
LockFree(t) == lockHolder = 0

\* let mut virt_dev = virt_device.lock();
Lock(t) ==
    /\ pc[t] = "lock"
    /\ LockFree(t)
    /\ lockHolder' = t
    /\ pc' = [pc EXCEPT ![t] = "emit"]
    /\ UNCHANGED <<mainPc, names, path, node, openable, grabber, hdl, gone, vpos,
                   batch, budget, readLog, outLog, emitFailed>>

\* A loop that takes the guard once for the whole batch.
EmitOkHoldingGate(t) ==
    /\ pc[t] = "emit"
    /\ outLog' = Append(outLog, [by |-> t, ev |-> CurrentEvent(batch[t])])
    /\ batch' = [batch EXCEPT ![t] = RestOfBatch(@)]
    /\ lockHolder' = IF batch'[t] = <<>> THEN GuardDropped(t) ELSE lockHolder
    /\ pc' = [pc EXCEPT ![t] = IF batch'[t] = <<>> THEN "sleep10" ELSE "emit"]
    /\ UNCHANGED <<mainPc, names, path, node, openable, grabber, hdl, gone, vpos,
                   budget, readLog, emitFailed>>

\* virt_dev.emit(&[event])? succeeds; the guard is dropped at the end of the
\* iteration and the for loop goes to the next event, or to the 10 ms sleep.
EmitOk(t) ==
    /\ pc[t] = "emit"
    /\ outLog' = Append(outLog, [by |-> t, ev |-> CurrentEvent(batch[t])])
    /\ batch' = [batch EXCEPT ![t] = RestOfBatch(@)]
    /\ lockHolder' = GuardDropped(t)
    /\ pc' = [pc EXCEPT ![t] = IF batch'[t] = <<>> THEN "sleep10" ELSE "lock"]
    /\ UNCHANGED <<mainPc, names, path, node, openable, grabber, hdl, gone, vpos,
                   budget, readLog, emitFailed>>

\* A worker that, when a write fails, builds a new virtual device in place
\* of the shared one.
EmitErrorRebuilding(t) ==
    /\ pc[t] = "emit"
    /\ SessionEnd(t)
    /\ emitFailed' = TRUE
    /\ \E i \in PlugNodes :
         /\ \A d \in Devices : node[d] # i
         /\ node' = [node EXCEPT ![VirtDev] = i]
    /\ UNCHANGED <<mainPc, names, path, openable, budget, readLog, outLog>>

\* virt_dev.emit(&[event])? returns an error: nothing is written.
EmitError(t) ==
    /\ pc[t] = "emit"
    /\ SessionEnd(t)
    /\ emitFailed' = TRUE
    /\ UNCHANGED <<mainPc, names, path, node, openable, budget, readLog, outLog>>

\* A handler that returns Ok(()) after one pass instead of looping.
Sleep10ThenReturn(t) ==
    /\ pc[t] = "sleep10"
    /\ SessionEnd(t)
    /\ UNCHANGED <<mainPc, names, path, node, openable, budget, readLog, outLog,
                   emitFailed>>

\* thread::sleep(Duration::from_millis(10)), then the next fetch.
Sleep10(t) ==
    /\ pc[t] = "sleep10"
    /\ pc' = [pc EXCEPT ![t] = "fetch"]
    /\ UNCHANGED <<mainPc, names, path, node, openable, grabber, hdl, gone, vpos,
                   batch, lockHolder, budget, readLog, outLog, emitFailed>>

\* ------------------------------------------------------------- environment
\* A physical device is unplugged: its node disappears, the kernel drops its
\* grab, and every handle open on it is dead.
Unplug(d) ==
    /\ node[d] # Absent
    /\ node' = [node EXCEPT ![d] = Absent]
    /\ grabber' = [grabber EXCEPT ![d] = 0]
    /\ gone' = gone \cup {t \in Threads : hdl[t] = d}
    /\ UNCHANGED <<mainPc, names, path, openable, pc, hdl, vpos, batch, lockHolder,
                   budget, readLog, outLog, emitFailed>>

\* A physical device is plugged in and gets a free node.
Plug(d, i) ==
    /\ node[d] = Absent
    /\ \A e \in Devices : node[e] # i
    /\ node' = [node EXCEPT ![d] = i]
    /\ UNCHANGED <<mainPc, names, path, openable, grabber, pc, hdl, gone, vpos,
                   batch, lockHolder, budget, readLog, outLog, emitFailed>>

Environment ==
    \E d \in PhysDevices :
        \/ Unplug(d)
        \/ \E i \in PlugNodes : Plug(d, i)

ThreadStep(t) ==
    \/ Find(t)
    \/ Sleep3(t)
    \/ Grab(t)
    \/ FetchEvents(t)
    \/ FetchError(t)
    \/ Lock(t)
    \/ EmitOk(t)
    \/ EmitError(t)
    \/ Sleep10(t)

Main == SetupOk \/ SetupFail \/ SpawnPrimary \/ SpawnSecondary

Next == Main \/ (\E t \in Threads : ThreadStep(t)) \/ Environment

Spec == Init /\ [][Next]_vars

\* Scheduling: the operating system runs every runnable thread, so a sleep
\* ends, a scan, a grab and an emit return, and a read on a vanished device
\* returns its error; the parking_lot Mutex hands the gate to a waiting
\* thread eventually.  A read on a device that is there returns only when
\* the device has events, which nothing guarantees.
Fairness ==
    /\ WF_vars(Main)
    /\ \A t \in Threads :
         /\ WF_vars(Find(t))
         /\ WF_vars(Sleep3(t))
         /\ WF_vars(Grab(t))
         /\ WF_vars(FetchError(t))
         /\ SF_vars(Lock(t))
         /\ WF_vars(EmitOk(t) \/ EmitError(t))
         /\ WF_vars(Sleep10(t))

LiveInit == InitWith(LiveEvents)

SpecLive == LiveInit /\ [][Next]_vars /\ Fairness

\* ------------------------------------------------- the scan as a function
\* Both supervisors are about to scan; the catalog is any placement of the
\* devices over the first nodes, the last node in range and the nodes just
\* past it, with any permissions, and the primary name is any of ScanTargets.
ScanNodes == PlugNodes \cup {ScanRange - 1, ScanRange + 1}

ScanTargets ==
    { <<>>, <<"c">>, <<"X">>, <<"X", "c">>, <<"x", "c">>, <<"c", "X">>,
      <<"X", "c", "c">>, <<"T", "c">> }

ScanInit ==
    /\ mainPc = "join"
    /\ names \in { <<n, SECONDARY_CONTROLLER_NAME>> : n \in ScanTargets }
    /\ node \in { f \in [Devices -> ScanNodes \cup {Absent}] :
                    /\ f[VirtDev] # Absent
                    /\ \A d, e \in Devices :
                          d # e /\ f[d] # Absent => f[d] # f[e] }
    /\ openable \in SUBSET Devices
    /\ grabber = [d \in Devices |-> 0]
    /\ pc = [t \in Threads |-> "find"]
    /\ hdl = [t \in Threads |-> NoDev]
    /\ gone = {}
    /\ vpos = [t \in Threads |-> 0]
    /\ batch = [t \in Threads |-> <<>>]
    /\ lockHolder = 0
    /\ budget = MaxEvents
    /\ readLog = [t \in Threads |-> <<>>]
    /\ outLog = <<>>
    /\ emitFailed = FALSE
    /\ path = [t \in Threads |-> Absent]

ScanNext == \E t \in Threads : Find(t)

SpecScan == ScanInit /\ [][ScanNext]_vars

\* ---------------------------------------------------------------- properties
\* A worker has grabbed its device and is in the read loop.
Streaming(t) == pc[t] \in {"fetch", "lock", "emit", "sleep10"}

\* A supervisor is between sessions: scanning, or in its 3 s delay.
Searching(t) == pc[t] \in {"find", "sleep3"}

\* The events thread t wrote to the virtual device, in the order written.
RECURSIVE WrittenBy(_, _)
WrittenBy(t, log) ==
    IF log = <<>> THEN <<>>
    ELSE IF Head(log).by = t
         THEN <<Head(log).ev>> \o WrittenBy(t, Tail(log))
         ELSE WrittenBy(t, Tail(log))

\* a is b with some elements left out, the rest in b's order.
RECURSIVE IsSubsequence(_, _)
IsSubsequence(a, b) ==
    IF a = <<>> THEN TRUE
    ELSE IF b = <<>> THEN FALSE
    ELSE IF Head(a) = Head(b) THEN IsSubsequence(Tail(a), Tail(b))
    ELSE IsSubsequence(a, Tail(b))

Count(e, s) == Cardinality({i \in DOMAIN s : s[i] = e})

SameBag(a, b) ==
    /\ Len(a) = Len(b)
    /\ \A i \in DOMAIN a : Count(a[i], a) = Count(a[i], b)

\* The events thread t has handed to emit: those it read, less the ones
\* still waiting in its batch (meaningful while no emit has failed, since a
\* failed emit discards the rest of the batch).
Submitted(t) == SubSeq(readLog[t], 1, Len(readLog[t]) - Len(batch[t]))

\* The worker's session is alive: it streams a device that is still there.
ActiveSession(t) == Streaming(t) /\ t \notin gone

\* n occurs in h: h is some prefix, then n, then some suffix.
IsSubstring(n, h) ==
    \E i \in 0 .. Len(h) : \E j \in i .. Len(h) : SubSeq(h, i + 1, j) = n

\* The indices in 0..31 whose node opens and advertises a name containing n.
Qualifying(n) ==
    { i \in 0 .. 31 :
        \E d \in Devices :
            node[d] = i /\ d \in openable /\ IsSubstring(n, AdvertisedName(d)) }

SmallestOf(S) == CHOOSE i \in S : \A j \in S : i <= j

\* A step in which thread t's discovery, grab, read or write fails.
FailureStep(t) ==
    pc[t] \in {"find", "grab", "fetch", "emit"} /\ pc'[t] = "sleep3"

\* Discovery for thread t's name would fail on the current catalog.
NoMatch(t) == find_device_by_name(names[t], node, openable) = NoDev

\* Device d sits at a node the scan reaches and opens.
Present(d) == node[d] \in 0 .. (ScanRange - 1) /\ d \in openable

\* d is the only device a scan for thread t's name can return, and no
\* other worker holds its grab.
OnlyMatch(t, d) ==
    /\ Contains(AdvertisedName(d), names[t])
    /\ \A e \in Devices \ {d} : Present(e) => ~Contains(AdvertisedName(e), names[t])
    /\ grabber[d] \in {0, t}

\* Thread t's session on d has just lost its device.
Disconnected(t, d) == Streaming(t) /\ hdl[t] = d /\ t \in gone

\* C1: at most one worker is inside the emit to the virtual device, and a
\* worker is inside emit only while it holds the Mutex guard.
C1_MutualExclusion ==
    /\ Cardinality({t \in Threads : pc[t] = "emit"}) <= 1
    /\ \A t \in Threads : pc[t] = "emit" => lockHolder = t

\* One worker is inside emit while the other waits at the gate.
C1_Witness == pc[1] = "emit" /\ pc[2] = "lock" /\ lockHolder = 1

\* C2: the events a source's worker wrote to the virtual device are, in
\* order, a subsequence of the events that worker read.
C2_OrderPreserved ==
    \A t \in Threads : IsSubsequence(WrittenBy(t, outLog), readLog[t])

\* A worker wrote both events of a batch of two.
C2_Witness ==
    \E t \in Threads :
        /\ Len(WrittenBy(t, outLog)) = 2
        /\ WrittenBy(t, outLog)[1] # WrittenBy(t, outLog)[2]
        /\ WrittenBy(t, outLog) = readLog[t]

\* C3: while every emit has succeeded, the virtual device has received
\* exactly the events the two workers submitted, each as often as it was
\* submitted and unchanged.
C3_NoLossNoDuplication ==
    ~emitFailed =>
        SameBag([i \in DOMAIN outLog |-> outLog[i].ev],
                Submitted(1) \o Submitted(2))

\* Both workers have written, interleaved, and no emit failed.
C3_Witness ==
    /\ ~emitFailed
    /\ Len(outLog) = 2
    /\ outLog[1].by # outLog[2].by
    /\ Streaming(1) /\ Streaming(2)

\* C4 as claimed: per configured source name there is at most one active
\* session, and no grab is attempted for a name while a session for it is
\* active.
C4_OneSessionPerName ==
    \A t \in Threads :
        names[t] = names[Other(t)] /\ ActiveSession(Other(t)) =>
            ~ActiveSession(t) /\ pc[t] # "grab"

\* C4 as amended: per supervisor there is at most one session; a supervisor
\* holds the grab of exactly the device it streams, holds no grab while it
\* searches or is about to grab, and so never grabs while a session of its
\* own is active.
C4_OneSessionPerSupervisor ==
    \A t \in Threads :
        /\ Cardinality({d \in Devices : grabber[d] = t}) <= 1
        /\ ActiveSession(t) => grabber[hdl[t]] = t
        /\ ~Streaming(t) => \A d \in Devices : grabber[d] # t
        /\ Searching(t) => hdl[t] = NoDev

\* A supervisor is between sessions after a session on a device that is
\* still plugged in, and the other supervisor streams.
C4_Witness ==
    /\ pc[1] = "sleep3" /\ emitFailed
    /\ node["A"] # Absent /\ grabber["A"] = 0
    /\ ActiveSession(2)

\* C5: after a scan the supervisor holds the device at the smallest index
\* in 0..31 whose node opens and whose name contains the target, whatever
\* nodes before it failed to open; when no index in 0..31 qualifies the scan
\* ended with the not-found error.
C5_ScanResult ==
    \A t \in Threads :
        pc[t] # "find" =>
            IF Qualifying(names[t]) = {}
            THEN pc[t] = "sleep3" /\ hdl[t] = NoDev
            ELSE /\ pc[t] = "grab"
                 /\ node[hdl[t]] = SmallestOf(Qualifying(names[t]))

\* The scan returned the device at index 31 after skipping a node at index
\* 0 that advertises a matching name but does not open, while another
\* matching device sits at index 32.
C5_Witness ==
    /\ pc[1] = "grab" /\ node[hdl[1]] = 31
    /\ \E d \in Devices :
         node[d] = 0 /\ d \notin openable /\ Contains(AdvertisedName(d), names[1])
    /\ \E d \in Devices :
         node[d] = 32 /\ d \in openable /\ Contains(AdvertisedName(d), names[1])

\* C6: a supervisor whose source stays absent attempts discovery again and
\* again, each failed attempt followed by the delay and the next attempt;
\* it neither stops nor leaves its loop, and the main thread stays joined.
C6_UnboundedRetry ==
    /\ \A t \in Threads :
         /\ [](pc[t] = "sleep3" => <>(pc[t] = "find"))
         /\ (<>[](pc[t] # "unstarted" /\ NoMatch(t))) =>
                ([]<>(pc[t] = "find") /\ []<>(pc[t] = "sleep3"))
    /\ [][\A t \in Threads :
              pc[t] = "find" /\ NoMatch(t) /\ pc'[t] # "find" =>
                  pc'[t] = "sleep3" /\ mainPc' = mainPc]_vars

\* The primary supervisor is in its delay after a failed discovery (its
\* name is wrongly cased, the controller itself is plugged in) while the
\* secondary source streams.
C6_Witness ==
    /\ pc[1] = "sleep3" /\ NoMatch(1)
    /\ names[1] = <<"x", "c">> /\ node["A"] = 0
    /\ ActiveSession(2)

\* C7 as claimed: once a session has lost its device, if the device
\* reappears in range and stays, it is streamed again.
C7_RecoversWhenPresent ==
    \A t \in Threads : \A d \in PhysDevices :
        [](Disconnected(t, d) =>
              ((<>[]Present(d)) => <>(\E u \in Threads : ActiveSession(u) /\ hdl[u] = d)))

\* C7 as amended: a read on a vanished device ends the session and sends
\* the supervisor to its delay; and once a session has lost its device, if
\* the device reappears in range and stays, and from the disconnect on it
\* is the only node the name matches and no other worker grabs it, the same
\* supervisor streams it again.
C7_RecoversWhenOnlyMatch ==
    /\ \A t \in Threads : \A d \in PhysDevices :
         [](Disconnected(t, d) =>
               (([]OnlyMatch(t, d) /\ <>[]Present(d)) =>
                    <>(ActiveSession(t) /\ hdl[t] = d)))
    /\ [][\A t \in Threads :
              pc[t] = "fetch" /\ t \in gone /\ pc'[t] # "fetch" =>
                  pc'[t] = "sleep3" /\ hdl'[t] = NoDev]_vars

\* A worker that has forwarded an event of controller A lost the device
\* mid-stream, and the controller is back, at another node, as the only
\* match of the worker's name; the worker has not yet seen the read error.
C7_Witness ==
    /\ Disconnected(1, "A") /\ pc[1] = "fetch"
    /\ WrittenBy(1, outLog) = << <<"A", 1>> >>
    /\ Present("A") /\ OnlyMatch(1, "A") /\ grabber["A"] = 0

\* C8: when construction of the virtual device failed (and as long as the
\* device does not exist) no supervisor thread has started, no device is
\* open and no device is grabbed.
C8_FatalConstructionFailure ==
    (mainPc = "exit_err" \/ node[VirtDev] = Absent) =>
        /\ \A t \in Threads : pc[t] = "unstarted" /\ hdl[t] = NoDev
        /\ \A d \in Devices : grabber[d] = 0
        /\ outLog = <<>>

\* Construction failed while the primary controller was plugged in.
C8_Witness ==
    /\ mainPc = "exit_err"
    /\ names[1] = PRIMARY_CONTROLLER_NAME
    /\ node["A"] = 0

\* C9: a failure step of one source changes nothing of the other source's
\* thread, handle, pending events or grab, nothing of the main thread, the
\* catalog or the output, and leaves the gate free for the other source.
C9_FailureIsolation ==
    [][\A t \in Threads :
         FailureStep(t) =>
             LET o == Other(t) IN
             /\ pc'[o] = pc[o]
             /\ hdl'[o] = hdl[o]
             /\ batch'[o] = batch[o]
             /\ vpos'[o] = vpos[o]
             /\ (o \in gone') = (o \in gone)
             /\ \A d \in Devices : grabber[d] = o => grabber'[d] = o
             /\ lockHolder' # t
             /\ lockHolder = o => lockHolder' = o
             /\ <<mainPc, node, openable, outLog>>' = <<mainPc, node, openable, outLog>>]_vars

\* One source's write has failed while the other source is in the middle of
\* forwarding a batch.
C9_Witness ==
    /\ pc[1] = "sleep3" /\ emitFailed
    /\ ActiveSession(2) /\ pc[2] = "lock" /\ batch[2] # <<>>
    /\ lockHolder = 0

\* C10: no physical device is streamed by two workers at once.
C10_ExclusiveOwnership ==
    \A d \in PhysDevices :
        Cardinality({t \in Threads : ActiveSession(t) /\ hdl[t] = d}) <= 1

\* Two different configured names both match device A; one worker streams
\* it and the other supervisor has opened it and is about to grab it.
C10_Witness ==
    /\ names[1] # names[2]
    /\ ActiveSession(1) /\ hdl[1] = "A"
    /\ pc[2] = "grab" /\ hdl[2] = "A" /\ 2 \notin gone

\* _primary_handle.join().unwrap(); _secondary_handle.join().unwrap(); Ok(())
\* main returns once both supervisor threads have terminated.
MainReturned == mainPc = "join" /\ \A t \in Threads : pc[t] = "exited"

\* The virtual device has been constructed.
Constructed == node[VirtDev] # Absent

\* The positions of a supervisor thread that is running its loop.
LoopPcs == {"find", "sleep3", "grab", "fetch", "lock", "emit", "sleep10"}

\* C11: once the virtual device is constructed main never returns, neither
\* with the construction error nor from its joins, and a supervisor thread,
\* once spawned, stays in its loop whatever fails; the process has ended
\* only in the state of a failed construction.
C11_NeverExits ==
    /\ Constructed => mainPc # "exit_err" /\ ~MainReturned
    /\ \A t \in Threads : pc[t] \in LoopPcs \cup {"unstarted"}
    /\ mainPc = "join" => \A t \in Threads : pc[t] \in LoopPcs
    /\ (mainPc = "exit_err" \/ MainReturned) =>
           ~Constructed /\ \A t \in Threads : pc[t] = "unstarted"

\* Main is joined; one supervisor is in its delay after a failed write that
\* followed a forwarded event, the other holds a device that vanished before
\* the grab, which is about to fail.
C11_Witness ==
    /\ mainPc = "join" /\ Constructed
    /\ emitFailed /\ outLog # <<>> /\ pc[1] = "sleep3"
    /\ pc[2] = "grab" /\ 2 \in gone

\* a is an initial part of b.
IsPrefix(a, b) == Len(a) <= Len(b) /\ SubSeq(b, 1, Len(a)) = a

\* C12: the virtual device exists before any supervisor thread runs; it is
\* created by one step only, main's setup step, taken while no supervisor
\* has started; afterwards no step moves, replaces or removes it, and what
\* it has received is only ever extended, one write at a time, also by the
\* step of a failed write.
C12_SingleOutputDevice ==
    /\ []((\E t \in Threads : pc[t] # "unstarted") => Constructed)
    /\ [][node'[VirtDev] # node[VirtDev] =>
              /\ mainPc = "setup" /\ mainPc' = "spawn_primary"
              /\ ~Constructed
              /\ \A t \in Threads : pc[t] = "unstarted"]_vars
    /\ [][IsPrefix(outLog, outLog') /\ Len(outLog') <= Len(outLog) + 1]_vars
    /\ [][emitFailed' # emitFailed =>
              node' = node /\ outLog' = outLog /\ mainPc' = mainPc]_vars

\* After one worker's write failed, the other worker's event has arrived at
\* the device, which sits at the node it was given at construction.
C12_Witness ==
    /\ Constructed /\ emitFailed
    /\ pc[1] = "sleep3" /\ readLog[1] # <<>>
    /\ Len(outLog) = 1 /\ outLog[1].by = 2
    /\ ActiveSession(2)

\* The grab thread t is about to attempt will be refused: its device has
\* vanished since the scan, or another handle holds the device's grab.
GrabRefused(t) == t \in gone \/ grabber[hdl[t]] # 0

\* C13: a worker about to grab has read nothing in this session; the step
\* of a refused grab reads and writes no event, closes the device without
\* taking any grab or opening another node, and puts the supervisor into
\* its 3 s delay; and the only step out of the delay starts a discovery.
C13_GrabFailure ==
    /\ [](\A t \in Threads : pc[t] = "grab" => batch[t] = <<>> /\ lockHolder # t)
    /\ [][\A t \in Threads :
              pc[t] = "grab" /\ GrabRefused(t)
                /\ <<pc[t], hdl[t]>>' # <<pc[t], hdl[t]>> =>
                  /\ pc'[t] = "sleep3"
                  /\ hdl'[t] = NoDev
                  /\ \A d \in Devices : grabber'[d] # t
                  /\ grabber'[hdl[t]] = grabber[hdl[t]]
                  /\ <<readLog, outLog, budget, lockHolder, mainPc>>'
                       = <<readLog, outLog, budget, lockHolder, mainPc>>]_vars
    /\ [][\A t \in Threads :
              pc[t] = "sleep3" /\ pc'[t] # "sleep3" =>
                  pc'[t] = "find" /\ hdl'[t] = NoDev]_vars

\* The second supervisor is in its delay after its grab was refused: its
\* name matches the virtual device, which has been in range since before the
\* supervisor started, so each of its scans has found a device; no grab of
\* its has been granted so far, and the first worker holds the virtual
\* device's grab and streams it.  The second worker has read nothing.
C13_Witness ==
    /\ pc[2] = "sleep3" /\ hdl[2] = NoDev
    /\ Contains(VIRTUAL_DEVICE_NAME, names[2]) /\ Present(VirtDev)
    /\ path[2] = Absent
    /\ grabber[VirtDev] = 1 /\ ActiveSession(1)
    /\ readLog[2] = <<>>

\* C14: the gate is held only by a worker that is inside its one write;
\* every step that ends a write, with success or with an error, is taken by
\* the holder and leaves the gate free; so a worker waiting at the gate while
\* the other worker is not writing finds the gate free.
C14_GateReleased ==
    /\ [](lockHolder # 0 => pc[lockHolder] = "emit")
    /\ [](\A t \in Threads :
             pc[t] = "lock" /\ pc[Other(t)] # "emit" => LockFree(t))
    /\ [][\A t \in Threads :
              pc[t] = "emit" /\ pc'[t] # "emit" =>
                  lockHolder = t /\ lockHolder' = 0]_vars
    /\ [][emitFailed' # emitFailed => lockHolder # 0 /\ lockHolder' = 0]_vars

\* The first source's only write failed and ended its session; afterwards
\* the second source's worker has acquired the gate and is writing.
C14_Witness ==
    /\ emitFailed /\ pc[1] = "sleep3" /\ outLog = <<>>
    /\ Len(readLog[1]) = 1 /\ Len(readLog[2]) = 1
    /\ pc[2] = "emit" /\ lockHolder = 2

\* C15: a worker holds the gate in none of its positions but the write
\* itself: not while it scans, sleeps, grabs, reads or waits; each write
\* puts exactly one event into the virtual device, is made by the holder of
\* the gate and ends with the gate free, so a batch of k events takes k
\* acquisitions; and a worker with an event to write whose peer is in any
\* position but its own write finds the gate free.
C15_PerEventGate ==
    /\ [](\A t \in Threads : pc[t] # "emit" => lockHolder # t)
    /\ [](\A t \in Threads :
             /\ pc[t] = "lock" => batch[t] # <<>>
             /\ pc[t] = "emit" => batch[t] # <<>>
             /\ pc[t] = "lock"
                  /\ pc[Other(t)] \in {"unstarted", "find", "sleep3", "grab",
                                       "fetch", "sleep10", "lock"}
                  => lockHolder = 0)
    /\ [][outLog' # outLog =>
              /\ lockHolder \in Threads /\ lockHolder' = 0
              /\ outLog' = Append(outLog, [by |-> lockHolder,
                                           ev |-> Head(batch[lockHolder])])
              /\ Len(batch'[lockHolder]) = Len(batch[lockHolder]) - 1
              /\ pc'[lockHolder] =
                    IF batch'[lockHolder] = <<>> THEN "sleep10" ELSE "lock"]_vars
    /\ [][lockHolder' \notin {0, lockHolder} =>
              lockHolder = 0 /\ pc[lockHolder'] = "lock" /\ outLog' = outLog]_vars

\* A worker has written the first event of a batch of two and waits at the
\* free gate for the second, while the other worker is blocked in its read.
C15_Witness ==
    /\ pc[1] = "lock" /\ Len(readLog[1]) = 2 /\ Len(batch[1]) = 1
    /\ Len(outLog) = 1 /\ ~emitFailed
    /\ lockHolder = 0
    /\ pc[2] = "fetch" /\ ActiveSession(2)

\* C16: a session starts at the grab, reached only from a scan; the grab
\* leads to streaming when it is granted and to the delay when it is
\* refused; streaming is left only for the delay, and only by a read on a
\* vanished device or by a write, which then wrote nothing; the step that
\* ends a session closes the handle; the delay is left only for a new scan,
\* and a supervisor that scans or sleeps holds no handle to re-grab or
\* re-read.
C16_FailureOnlyExit ==
    /\ [](\A t \in Threads : Searching(t) => hdl[t] = NoDev /\ t \notin gone)
    /\ [][\A t \in Threads :
              /\ pc'[t] = "grab" /\ pc[t] # "grab" => pc[t] = "find"
              /\ pc[t] = "grab" /\ pc'[t] # "grab" =>
                    \/ pc'[t] = "fetch" /\ ~GrabRefused(t) /\ grabber'[hdl[t]] = t
                    \/ pc'[t] = "sleep3" /\ GrabRefused(t)
              /\ Streaming(t) => Streaming(t)' \/ pc'[t] = "sleep3"
              /\ Streaming(t) /\ pc'[t] = "sleep3" =>
                    \/ pc[t] = "fetch" /\ t \in gone
                    \/ pc[t] = "emit" /\ emitFailed' /\ outLog' = outLog
              /\ pc'[t] = "sleep3" /\ pc[t] # "sleep3" => hdl'[t] = NoDev
              /\ pc[t] = "sleep3" /\ pc'[t] # "sleep3" => pc'[t] = "find"
              /\ pc'[t] = "fetch" /\ pc[t] \notin {"fetch", "grab"} =>
                    pc[t] = "sleep10" /\ hdl'[t] = hdl[t]]_vars

\* A session that forwarded everything it read has ended by a read error,
\* no write having failed; the supervisor is in its delay without a handle
\* and the controller is back at another node than the session's.
C16_Witness ==
    /\ pc[1] = "sleep3" /\ hdl[1] = NoDev
    /\ ~emitFailed
    /\ readLog[1] # <<>> /\ WrittenBy(1, outLog) = readLog[1]
    /\ node["A"] \in 0 .. (ScanRange - 1) /\ path[1] # node["A"]
    /\ names[1] = PRIMARY_CONTROLLER_NAME

\* C17: a supervisor about to scan holds no handle, and the step of its scan
\* depends on the configured name and the catalog of that moment only: with
\* no openable node in 0..31 whose name contains the configured name it
\* ends in the delay, otherwise it opens the device at the smallest such
\* index, whatever node the supervisor's last session was on.
C17_NoCachedPath ==
    /\ [](\A t \in Threads : pc[t] = "find" => hdl[t] = NoDev)
    /\ [][\A t \in Threads :
              pc[t] = "find" /\ pc'[t] # "find" =>
                  IF Qualifying(names[t]) = {}
                  THEN pc'[t] = "sleep3" /\ hdl'[t] = NoDev
                  ELSE /\ pc'[t] = "grab"
                       /\ node[hdl'[t]] = SmallestOf(Qualifying(names[t]))
                       /\ IsSubstring(names[t], AdvertisedName(hdl'[t]))]_vars

\* The primary supervisor's last session was on a device at index 0; that
\* index now belongs to the secondary controller, whose name the primary
\* name does not match, and the primary controller is back at index 1: the
\* scan has opened the primary controller there.
C17_Witness ==
    /\ names = <<PRIMARY_CONTROLLER_NAME, SECONDARY_CONTROLLER_NAME>>
    /\ path[1] = 0 /\ readLog[1] # <<>>
    /\ node["B"] = 0 /\ node["A"] = 1
    /\ pc[1] = "grab" /\ hdl[1] = "A" /\ 1 \notin gone

\* C18: a supervisor that scans or sleeps its 3 s holds no open device and
\* no grab; the step into the delay, from a refused grab as from a failed
\* read or write, closes the session's device and drops the grab the
\* session held and no other; and a scan takes or drops no grab and leaves
\* open at most one device, whose name contains the configured name.
C18_HandleReleased ==
    /\ [](\A t \in Threads :
             Searching(t) =>
                 /\ hdl[t] = NoDev /\ t \notin gone
                 /\ \A d \in Devices : grabber[d] # t)
    /\ [][\A t \in Threads :
              pc'[t] = "sleep3" /\ pc[t] # "sleep3" =>
                  /\ hdl'[t] = NoDev
                  /\ \A d \in Devices :
                        grabber'[d] = IF grabber[d] = t THEN 0 ELSE grabber[d]]_vars
    /\ [][\A t \in Threads :
              pc[t] = "find" /\ pc'[t] # "find" =>
                  /\ grabber' = grabber
                  /\ hdl'[Other(t)] = hdl[Other(t)]
                  /\ hdl'[t] # NoDev =>
                        IsSubstring(names[t], AdvertisedName(hdl'[t]))]_vars

\* The first worker read one event of controller A and its write failed;
\* its supervisor is in the delay with nothing open, and the second worker,
\* whose name matches controller A too, has since been granted A's grab.
C18_Witness ==
    /\ pc[1] = "sleep3" /\ hdl[1] = NoDev
    /\ readLog[1] = << <<"A", 1>> >> /\ outLog = <<>>
    /\ grabber["A"] = 2 /\ hdl[2] = "A" /\ pc[2] = "fetch" /\ 2 \notin gone

\* Device d is usable for thread t: t's supervisor runs, d's node is in
\* range and opens, d's name contains t's configured name, and no other
\* worker holds d's grab.
Usable(t, d) ==
    /\ pc[t] # "unstarted"
    /\ Present(d)
    /\ IsSubstring(names[t], AdvertisedName(d))
    /\ grabber[d] \in {0, t}

\* Device d is usable for thread t and is the device a scan for t's name
\* returns: no node before d's opens with a matching name.
UsableFirst(t, d) ==
    /\ Usable(t, d)
    /\ node[d] = SmallestOf(Qualifying(names[t]))

\* C19 as claimed: if from some time on some device stays usable for a
\* running supervisor, the source's worker is streaming again and again.
C19_ConnectsWhenUsable ==
    \A t \in Threads : \A d \in Devices :
        (<>[]Usable(t, d)) => []<>Streaming(t)

\* C19 as amended: if from some time on one and the same device stays
\* usable for a running supervisor and stays the device its scan returns,
\* the source's worker has a live session again and again: on that device,
\* or on a device it was granted earlier and still streams.
C19_ConnectsWhenFirstMatchUsable ==
    \A t \in Threads : \A d \in Devices :
        (<>[]UsableFirst(t, d)) => []<>ActiveSession(t)

\* Both configured names match controller A, the only match in range: the
\* second worker has been granted A's grab and streams it, after the first
\* worker's session on A ended with a failed write; the first supervisor
\* is in its delay.
C19_Witness ==
    /\ names[1] # names[2]
    /\ UsableFirst(2, "A") /\ ActiveSession(2) /\ hdl[2] = "A"
    /\ pc[1] = "sleep3" /\ path[1] = node["A"] /\ emitFailed
    /\ IsSubstring(names[1], AdvertisedName("A"))

\* Some event has arrived at the virtual device more than once.
WrittenTwice ==
    \E i, j \in DOMAIN outLog : i # j /\ outLog[i].ev = outLog[j].ev

\* C20 as claimed: no worker ever has the virtual device open as its
\* source, nobody holds the virtual device's grab, and no event written to
\* the virtual device is read back and written again.
C20_NoFeedback ==
    /\ \A t \in Threads : hdl[t] # VirtDev
    /\ grabber[VirtDev] = 0
    /\ ~WrittenTwice

\* What holds instead: a worker has the virtual device as its source only
\* when its configured name is contained in the virtual device's name, and
\* an event arrives twice only through such a worker.
C20_FeedbackOnlyByName ==
    /\ \A t \in Threads :
          hdl[t] = VirtDev => IsSubstring(names[t], VIRTUAL_DEVICE_NAME)
    /\ grabber[VirtDev] # 0 =>
          IsSubstring(names[grabber[VirtDev]], VIRTUAL_DEVICE_NAME)
    /\ WrittenTwice =>
          \E t \in Threads : IsSubstring(names[t], VIRTUAL_DEVICE_NAME)

\* The feedback loop: the second worker has grabbed the virtual device and
\* has written back into it the event that the first worker forwarded from
\* controller A.
C20_Witness ==
    /\ ActiveSession(2) /\ hdl[2] = VirtDev /\ grabber[VirtDev] = 2
    /\ ActiveSession(1) /\ hdl[1] = "A"
    /\ Len(outLog) = 2
    /\ outLog[1] = [by |-> 1, ev |-> <<"A", 1>>]
    /\ outLog[2] = [by |-> 2, ev |-> <<"A", 1>>]

====
